---------------------------- MODULE Spec2Model ----------------------------
(***************************************************************************)
(* A model of arunksaha/lru_map: the class template LruMap of lru_map.h    *)
(* (a std::list of entries in recency order plus a std::unordered_map from *)
(* key to list iterator), its four policies, and the clients that drive    *)
(* it.  Every operation is modelled statement group by statement group as  *)
(* a step of a small program counter machine (Step); one call run to its   *)
(* return (Run) is the operation as a single-threaded client sees it, and  *)
(* the same steps interleaved by several threads give the concurrent       *)
(* engine.                                                                 *)
(***************************************************************************)
EXTENDS Integers, Sequences, FiniteSets

(***************************************************************************)
(* Bounds of the model.                                                    *)
(***************************************************************************)
\* Largest capacity an engine is constructed with.
MaxCap == 2
\* Number of counted calls (Insert, Find, Erase, Clear) of a sequential client.
MaxOps == 4
\* Largest clock reading.
MaxClock == 2
\* Number of client threads of the concurrent engine.
NumThreads == 2
\* Number of calls the threads make between them.
MaxCalls == 3

\* Constructor arguments tried: -1 and 0 are the rejected ones.
CapArgs == -1..MaxCap
\* Keys of the scripted client, which inserts 2 * capacity distinct keys.
ScriptKeys == 0..(2 * MaxCap - 1)
\* Two distinguishable payloads (the test's 5 * key and its overwrite 2016).
Values == {5, 2016}
\* A null pointer, and end() of the index.
NullPtr == 0
\* What a caller holding a null pointer has for a value: nothing.
NoValue == 0
Threads == 1..NumThreads

VARIABLES
    capacity_,      \* LruMap::capacity_
    lru_stats_,     \* LruMap::lru_stats_
    lru_list_,      \* LruMap::lru_list_: entries, front first; each has its node address
    lru_key_map_,   \* LruMap::lru_key_map_: key -> node address of its list entry
    mutex,          \* LockStorageStdMutex::mutex: 0 when free, else the owning thread
    policy,         \* the template arguments of the instantiation
    clock,          \* last reading of MicrosecondsSinceEpoch()
    glog,           \* the events the logging policy has emitted, oldest first
    aborted,        \* a CHECK failed: the process has aborted
    dcheck_failed,  \* a DCHECK was false (a debug build would have aborted)
    ub,             \* a container operation was applied outside its precondition
    last,           \* the sequential client's last completed call and its result
    frames,         \* per thread: the call it is executing (pc, arguments, locals)
    used,           \* history: keys by last use, most recent first
    lin,            \* history: the engine as the calls run one at a time, in lock order
    script,         \* the scripted client's position
    hist            \* history: what the auditing client has called and got back

vars == <<capacity_, lru_stats_, lru_list_, lru_key_map_, mutex, policy, clock,
          glog, aborted, dcheck_failed, ub, last, frames, used, lin, script, hist>>

\* Keys of the general client: one more than the capacity, so a full engine
\* always has a key it does not hold.
Keys == 0..capacity_

(***************************************************************************)
(* Data.                                                                   *)
(***************************************************************************)
\* struct LruMapStats, zero-initialised.
ZeroStats ==
    [num_insert |-> 0, num_overflow |-> 0, num_find |-> 0,
     num_find_ok |-> 0, num_erase |-> 0, num_clear |-> 0]

\* The fields of LruMapStats in declaration order.
StatsFields ==
    <<"num_insert", "num_overflow", "num_find", "num_find_ok", "num_erase", "num_clear">>

\* KeyValueT(k, v): a list node at address a; policy fields start at 0.
KeyValueEntry(a, k, v) ==
    [addr |-> a, key |-> k, value |-> v,
     access_time_usecs |-> 0, modify_time_usecs |-> 0, hit_count |-> 0]

\* KeyValueT::ToString: key; value, then whatever the policies carry.
EntryToString(e) ==
    <<e.key, e.value>>
    \o (IF policy.timestamp = "TimestampAll"
        THEN <<e.access_time_usecs, e.modify_time_usecs>> ELSE <<>>)
    \o (IF policy.hit = "HitCountEnabled" THEN <<e.hit_count>> ELSE <<>>)

\* The default instantiation LruMap<KeyType, ValueType>.
DefaultPolicy ==
    [lock |-> "LockNone", timestamp |-> "TimestampNone",
     hit |-> "HitCountDisabled", log |-> "LogEventNone"]

(***************************************************************************)
(* std::list and std::unordered_map.                                       *)
(***************************************************************************)
Addrs(list) == {list[i].addr : i \in 1..Len(list)}

ListKeys(list) == {list[i].key : i \in 1..Len(list)}

\* Position of the node at address a, 0 when no node of the list is there.
IndexOf(list, a) ==
    IF a \in Addrs(list) THEN CHOOSE i \in 1..Len(list) : list[i].addr = a ELSE 0

\* The list without its i-th node.
RemoveAt(list, i) == SubSeq(list, 1, i - 1) \o SubSeq(list, i + 1, Len(list))

\* The address operator new gives the next node: one no live node has.  Which
\* one is immaterial (addresses are only compared), so the lowest is taken.
NewAddr(list) == CHOOSE a \in 1..(Len(list) + 1) : a \notin Addrs(list)

\* list.splice(list.begin(), list, it): the node moves to the front, its
\* address unchanged.
Splice(list, it) == <<list[IndexOf(list, it)]>> \o RemoveAt(list, IndexOf(list, it))

\* list.push_front(entry).
PushFront(list, e) == <<e>> \o list

\* list.pop_back().
PopBack(list) == SubSeq(list, 1, Len(list) - 1)

\* list.erase(it).
ListErase(list, it) == RemoveAt(list, IndexOf(list, it))

\* map.find(key), given as the list iterator it holds, NullPtr for end().
MapFind(map, key) == IF key \in DOMAIN map THEN map[key] ELSE NullPtr

\* map.insert({key, it}): no effect when the key is present.
MapInsert(map, key, it) ==
    IF key \in DOMAIN map THEN map
    ELSE [k \in DOMAIN map \cup {key} |-> IF k = key THEN it ELSE map[k]]

\* map.erase(key).
MapErase(map, key) == [k \in DOMAIN map \ {key} |-> map[k]]

\* The empty map.
EmptyMap == [k \in {} |-> NullPtr]


(***************************************************************************)
(* The policies.                                                           *)
(***************************************************************************)
\* MicrosecondsSinceEpoch() cannot exceed this; stands for int64 max, which
\* the model's integers cannot hold.
Int64Max == 2147483647

\* TimestampingPolicy::UpdateAccessTimestamp.
UpdateAccessTimestamp(e, now) ==
    IF policy.timestamp = "TimestampAll" THEN [e EXCEPT !.access_time_usecs = now] ELSE e

\* Mutant: Insert does not stamp the entry.
UpdateModifyTimestamp_skipped(e, now) == e

\* TimestampingPolicy::UpdateModifyTimestamp.
UpdateModifyTimestamp(e, now) ==
    IF policy.timestamp = "TimestampAll" THEN [e EXCEPT !.modify_time_usecs = now] ELSE e

\* std::max<int64_t>.
Max(a, b) == IF a >= b THEN a ELSE b

\* The loop of TimestampAll::Valid from the i-th entry on, prev_usecs being
\* the newer timestamp of the entry before it.
RECURSIVE ValidScan(_, _, _)
ValidScan(list, i, prev_usecs) ==
    IF i > Len(list) THEN TRUE
    ELSE LET current_recent_usecs ==
                 Max(list[i].access_time_usecs, list[i].modify_time_usecs)
         IN  IF current_recent_usecs > prev_usecs THEN FALSE
             ELSE ValidScan(list, i + 1, current_recent_usecs)

\* Mutant: TimestampAll::Valid rejects equal timestamps, if (current >= prev).
TimestampValid_strict(list) ==
    IF policy.timestamp = "TimestampAll"
    THEN \A i \in 2..Len(list) :
             Max(list[i].access_time_usecs, list[i].modify_time_usecs)
               < Max(list[i - 1].access_time_usecs, list[i - 1].modify_time_usecs)
    ELSE TRUE

\* TimestampingPolicy::Valid.
TimestampValid(list) ==
    IF policy.timestamp = "TimestampAll" THEN ValidScan(list, 1, Int64Max) ELSE TRUE

\* HitCountingPolicy::IncrementHitCount.
IncrementHitCount(e) ==
    IF policy.hit = "HitCountEnabled" THEN [e EXCEPT !.hit_count = @ + 1] ELSE e

\* LoggingPolicy::Log: one line, the event's name and the entry's rendering.
Log(g, event, e) == Append(g, <<event, EntryToString(e)>>)

\* LoggingPolicy::LogInsert.
LogInsert(g, e) == IF policy.log = "LogEventAll" THEN Log(g, "Insert", e) ELSE g

\* LoggingPolicy::LogOverflow.
LogOverflow(g, e) ==
    IF policy.log \in {"LogEventOverflow", "LogEventAll"} THEN Log(g, "Overflow", e) ELSE g

\* LoggingPolicy::LogFind.
LogFind(g, e) == IF policy.log = "LogEventAll" THEN Log(g, "Find", e) ELSE g

\* LoggingPolicy::LogErase.
LogErase(g, e) == IF policy.log = "LogEventAll" THEN Log(g, "Erase", e) ELSE g

(***************************************************************************)
(* The engine and a call in progress.                                      *)
(*                                                                         *)
(* A world w is everything a step can change: the members of the LruMap,   *)
(* its mutex, the log and the failure flags.  A frame fr is one call: the  *)
(* calling thread, the operation and its arguments, the program counter,   *)
(* the locals and the return value.                                        *)
(***************************************************************************)
World ==
    [lru_stats_ |-> lru_stats_, lru_list_ |-> lru_list_, lru_key_map_ |-> lru_key_map_,
     mutex |-> mutex, glog |-> glog, aborted |-> aborted,
     dcheck_failed |-> dcheck_failed, ub |-> ub]

\* The operations that construct no LockingPolicy object.
Unlocked == {"Capacity", "lru_map_stats"}

\* The first statement of each operation after its lock.
Entry(op) ==
    CASE op = "Insert" -> "Insert_find"
      [] op = "Find" -> "Find_count"
      [] op = "Exists" -> "Exists_find"
      [] op = "Erase" -> "Erase_count"
      [] op = "Clear" -> "Clear_containers"
      [] op = "Capacity" -> "Capacity_return"
      [] op = "Size" -> "Size_return"
      [] op = "Valid" -> "Valid_audit"
      [] op = "ToString" -> "ToString_render"
      [] op = "lru_map_stats" -> "Stats_copy"

\* A thread that is in no call.
IdleFrame(t) ==
    [tid |-> t, op |-> "None", key |-> 0, value |-> 0, pc |-> "idle",
     map_it |-> NullPtr, oldest |-> NullPtr, i |-> 1, ret |-> 0]

\* The return object of op before its return statement has run: of the
\* type op returns (nothing, for the void operations).
Unreturned(op) ==
    CASE op \in {"Exists", "Valid"} -> FALSE
      [] op = "ToString" -> <<>>
      [] op = "lru_map_stats" -> ZeroStats
      [] OTHER -> 0

\* Thread t calls op(key, value): the frame at the operation's first statement.
Call(t, op, key, value) ==
    [tid |-> t, op |-> op, key |-> key, value |-> value,
     pc |-> IF op \in Unlocked THEN Entry(op) ELSE "lock",
     map_it |-> NullPtr, oldest |-> NullPtr, i |-> 1,
     ret |-> Unreturned(op)]

Res(w, fr) == [w |-> w, fr |-> fr]

Goto(fr, pc) == [fr EXCEPT !.pc = pc]

\* A container operation outside its precondition: the thread goes no further.
Undefined(w, fr) == Res([w EXCEPT !.ub = TRUE], Goto(fr, "halt"))

\* LruMap::SizePrivate, its return value.
SizePrivate(w) == Len(w.lru_list_)

\* LruMap::SizePrivate, its DCHECK_EQ.
SizePrivateDCheck(w) ==
    [w EXCEPT !.dcheck_failed =
        @ \/ Len(w.lru_list_) # Cardinality(DOMAIN w.lru_key_map_)]

(***************************************************************************)
(* The locking policy.                                                     *)
(***************************************************************************)
\* LockExclusiveStd's constructor waits while the mutex is held (by anyone:
\* std::mutex is not recursive); LockNone's never waits.
\* Mutant: the constructor of the lock object never waits.
Blocked_never(w, fr) == FALSE

Blocked(w, fr) ==
    fr.pc = "lock" /\ policy.lock = "LockExclusiveStd" /\ w.mutex # 0

\* LockingPolicy<ThisType> lock{this}.
Lock(w, fr) ==
    Res(IF policy.lock = "LockExclusiveStd" THEN [w EXCEPT !.mutex = fr.tid] ELSE w,
        Goto(fr, Entry(fr.op)))

\* ~LockingPolicy at the end of the operation's scope, then the return.
Unlock(w, fr) ==
    Res(IF policy.lock = "LockExclusiveStd" THEN [w EXCEPT !.mutex = 0] ELSE w,
        Goto(fr, "done"))

\* Where an operation goes when its body is over: through the destructor
\* of its lock object.
Leave(fr) == Goto(fr, "unlock")

(***************************************************************************)
(* LruMap::Insert.                                                         *)
(***************************************************************************)
\* map_it = lru_key_map_.find(key), and the branch on it.
Insert_find(w, fr) ==
    LET it == MapFind(w.lru_key_map_, fr.key)
    IN  Res(w, [fr EXCEPT !.map_it = it,
                          !.pc = IF it # NullPtr THEN "Insert_update" ELSE "Insert_new"])

\* Mutant: the existing node is given the new value where it is, not moved.
Insert_update_not_moved(w, fr) ==
    IF IndexOf(w.lru_list_, fr.map_it) = 0 THEN Undefined(w, fr)
    ELSE Res([w EXCEPT !.lru_list_[IndexOf(w.lru_list_, fr.map_it)].value = fr.value],
             Goto(fr, "Insert_hooks"))

\* Mutant: the existing node is moved to the front and keeps its old value.
Insert_update_keeps_value(w, fr) ==
    IF IndexOf(w.lru_list_, fr.map_it) = 0 THEN Undefined(w, fr)
    ELSE Res([w EXCEPT !.lru_list_ = Splice(w.lru_list_, fr.map_it)],
             Goto(fr, "Insert_hooks"))

\* Mutant: the existing node is replaced by a newly constructed entry.
Insert_update_new_entry(w, fr) ==
    IF IndexOf(w.lru_list_, fr.map_it) = 0 THEN Undefined(w, fr)
    ELSE LET spliced == Splice(w.lru_list_, fr.map_it)
         IN  Res([w EXCEPT !.lru_list_ =
                      [spliced EXCEPT ![1] = KeyValueEntry(fr.map_it, fr.key, fr.value)]],
                 Goto(fr, "Insert_hooks"))

\* The key exists: its node is spliced to the front and given the new value.
Insert_update(w, fr) ==
    IF IndexOf(w.lru_list_, fr.map_it) = 0 THEN Undefined(w, fr)
    ELSE LET spliced == Splice(w.lru_list_, fr.map_it)
         IN  Res([w EXCEPT !.lru_list_ = [spliced EXCEPT ![1].value = fr.value]],
                 Goto(fr, "Insert_hooks"))

\* The key does not exist: a new entry is pushed to the front and the index
\* made to point at it.  CHECK(result.second) aborts when the index already
\* had the key; the DCHECK before it tests the same.
Insert_new(w, fr) ==
    LET kv_entry == KeyValueEntry(NewAddr(w.lru_list_), fr.key, fr.value)
        present == fr.key \in DOMAIN w.lru_key_map_
    IN  Res([w EXCEPT !.lru_list_ = PushFront(@, kv_entry),
                      !.lru_key_map_ = MapInsert(@, fr.key, kv_entry.addr),
                      !.dcheck_failed = @ \/ present,
                      !.aborted = @ \/ present],
            Goto(fr, IF present THEN "halt" ELSE "Insert_hooks"))

\* Mutant: Insert stamps the access time as well.
Insert_hooks_stamps_access(w, fr, now) ==
    IF w.lru_list_ = <<>> THEN Undefined(w, fr)
    ELSE LET recent_kv_entry == Head(w.lru_list_)
         IN  Res([w EXCEPT !.dcheck_failed = @ \/ recent_kv_entry.key # fr.key,
                           !.glog = LogInsert(@, recent_kv_entry),
                           !.lru_list_[1] = UpdateAccessTimestamp(
                                                UpdateModifyTimestamp(recent_kv_entry, now), now)],
                 Goto(fr, "Insert_size"))

\* DCHECK(front key == key), LogInsert and UpdateModifyTimestamp on the front entry.
Insert_hooks(w, fr, now) ==
    IF w.lru_list_ = <<>> THEN Undefined(w, fr)
    ELSE LET recent_kv_entry == Head(w.lru_list_)
         IN  Res([w EXCEPT !.dcheck_failed = @ \/ recent_kv_entry.key # fr.key,
                           !.glog = LogInsert(@, recent_kv_entry),
                           !.lru_list_[1] = UpdateModifyTimestamp(recent_kv_entry, now)],
                 Goto(fr, "Insert_size"))

\* Mutant: the overflow test is off by one, if (SizePrivate() > capacity_ + 1).
Insert_size_off_by_one(w, fr) ==
    Res(SizePrivateDCheck(w),
        Goto(fr, IF SizePrivate(w) > capacity_ + 1 THEN "Insert_overflow" ELSE "Insert_count"))

\* Mutant: the overflow test is if (SizePrivate() >= capacity_).
Insert_size_at_capacity(w, fr) ==
    Res(SizePrivateDCheck(w),
        Goto(fr, IF SizePrivate(w) >= capacity_ THEN "Insert_overflow" ELSE "Insert_count"))

\* if (SizePrivate() > capacity_).
Insert_size(w, fr) ==
    Res(SizePrivateDCheck(w),
        Goto(fr, IF SizePrivate(w) > capacity_ THEN "Insert_overflow" ELSE "Insert_count"))

\* Mutant: the overflow hook is given the entry at the front.
Insert_overflow_logs_front(w, fr) ==
    IF w.lru_list_ = <<>> THEN Undefined(w, fr)
    ELSE LET oldest_kv_entry == w.lru_list_[Len(w.lru_list_)]
         IN  Res([w EXCEPT !.lru_stats_.num_overflow = @ + 1,
                           !.glog = LogOverflow(@, Head(w.lru_list_))],
                 [fr EXCEPT !.oldest = oldest_kv_entry.addr, !.pc = "Insert_evict"])

\* oldest = --end(); num_overflow += 1; LogOverflow(*oldest).
Insert_overflow(w, fr) ==
    IF w.lru_list_ = <<>> THEN Undefined(w, fr)
    ELSE LET oldest_kv_entry == w.lru_list_[Len(w.lru_list_)]
         IN  Res([w EXCEPT !.lru_stats_.num_overflow = @ + 1,
                           !.glog = LogOverflow(@, oldest_kv_entry)],
                 [fr EXCEPT !.oldest = oldest_kv_entry.addr, !.pc = "Insert_evict"])

\* Mutant: the evicted entry is popped off the list and left in the index.
Insert_evict_keeps_index(w, fr) ==
    IF w.lru_list_ = <<>> THEN Undefined(w, fr)
    ELSE Res([w EXCEPT !.lru_list_ = PopBack(@)], Goto(fr, "Insert_count"))

\* Mutant: the entry at the front is evicted in place of the one at the back.
Insert_evict_front(w, fr) ==
    IF w.lru_list_ = <<>> THEN Undefined(w, fr)
    ELSE Res([w EXCEPT !.lru_key_map_ = MapErase(@, Head(w.lru_list_).key),
                       !.lru_list_ = Tail(@)],
             Goto(fr, "Insert_count"))

\* Mutant: the entry evicted is one whose newer timestamp is the smallest.
Insert_evict_oldest_stamp(w, fr) ==
    IF w.lru_list_ = <<>> THEN Undefined(w, fr)
    ELSE LET recent(i) == Max(w.lru_list_[i].access_time_usecs,
                              w.lru_list_[i].modify_time_usecs)
             i == CHOOSE i \in 1..Len(w.lru_list_) :
                      \A j \in 1..Len(w.lru_list_) : recent(i) <= recent(j)
         IN  Res([w EXCEPT !.lru_key_map_ = MapErase(@, w.lru_list_[i].key),
                           !.lru_list_ = RemoveAt(@, i)],
                 Goto(fr, "Insert_count"))

\* Mutant: an Insert that evicted returns without counting itself.
Insert_evict_returns(w, fr) ==
    IF w.lru_list_ = <<>> \/ IndexOf(w.lru_list_, fr.oldest) = 0 THEN Undefined(w, fr)
    ELSE Res([w EXCEPT
                 !.lru_key_map_ = MapErase(@, w.lru_list_[IndexOf(w.lru_list_, fr.oldest)].key),
                 !.lru_list_ = PopBack(@)],
             Leave(fr))

\* lru_key_map_.erase(oldest->key); lru_list_.pop_back().
Insert_evict(w, fr) ==
    IF w.lru_list_ = <<>> \/ IndexOf(w.lru_list_, fr.oldest) = 0 THEN Undefined(w, fr)
    ELSE Res([w EXCEPT
                 !.lru_key_map_ = MapErase(@, w.lru_list_[IndexOf(w.lru_list_, fr.oldest)].key),
                 !.lru_list_ = PopBack(@)],
             Goto(fr, "Insert_count"))

\* Mutant: only the Inserts of a new key are counted.
Insert_count_new_only(w, fr) ==
    Res(IF fr.map_it = NullPtr THEN [w EXCEPT !.lru_stats_.num_insert = @ + 1] ELSE w,
        Leave(fr))

\* lru_stats_.num_insert += 1.
Insert_count(w, fr) ==
    Res([w EXCEPT !.lru_stats_.num_insert = @ + 1], Leave(fr))

(***************************************************************************)
(* LruMap::Find.                                                           *)
(***************************************************************************)
\* Mutant: every Find is counted as a successful one too.
Find_count_as_hit(w, fr) ==
    Res([w EXCEPT !.lru_stats_.num_find = @ + 1, !.lru_stats_.num_find_ok = @ + 1],
        Goto(fr, "Find_find"))

\* lru_stats_.num_find += 1.
Find_count(w, fr) ==
    Res([w EXCEPT !.lru_stats_.num_find = @ + 1], Goto(fr, "Find_find"))

\* Mutant: the early return on a miss leaves the mutex held.
Find_find_miss_keeps_lock(w, fr) ==
    LET it == MapFind(w.lru_key_map_, fr.key)
    IN  IF it = NullPtr THEN Res(w, Goto([fr EXCEPT !.map_it = it, !.ret = NullPtr], "done"))
        ELSE Res(w, [fr EXCEPT !.map_it = it, !.pc = "Find_splice"])

\* map_it = lru_key_map_.find(key); a miss returns nullptr.
Find_find(w, fr) ==
    LET it == MapFind(w.lru_key_map_, fr.key)
    IN  IF it = NullPtr THEN Res(w, Leave([fr EXCEPT !.map_it = it, !.ret = NullPtr]))
        ELSE Res(w, [fr EXCEPT !.map_it = it, !.pc = "Find_splice"])

\* Mutant: the found node stays where it is.
Find_splice_skipped(w, fr) ==
    Res([w EXCEPT !.dcheck_failed = @ \/ w.lru_list_[1].key # fr.key], Goto(fr, "Find_hit"))

\* Mutant: the found node changes places with the node at the front.
Find_splice_swaps(w, fr) ==
    IF IndexOf(w.lru_list_, fr.map_it) = 0 THEN Undefined(w, fr)
    ELSE LET i == IndexOf(w.lru_list_, fr.map_it)
             swapped == [w.lru_list_ EXCEPT ![1] = w.lru_list_[i], ![i] = w.lru_list_[1]]
         IN  Res([w EXCEPT !.lru_list_ = swapped,
                           !.dcheck_failed = @ \/ swapped[1].key # fr.key],
                 Goto(fr, "Find_hit"))

\* The found node is spliced to the front; DCHECK(front key == key).
Find_splice(w, fr) ==
    IF IndexOf(w.lru_list_, fr.map_it) = 0 THEN Undefined(w, fr)
    ELSE LET spliced == Splice(w.lru_list_, fr.map_it)
         IN  Res([w EXCEPT !.lru_list_ = spliced,
                           !.dcheck_failed = @ \/ spliced[1].key # fr.key],
                 Goto(fr, "Find_hit"))

\* Mutant: Find returns the address of a copy of the entry it found.
Find_hit_returns_local(w, fr, now) ==
    IF w.lru_list_ = <<>> THEN Undefined(w, fr)
    ELSE LET counted == IncrementHitCount(Head(w.lru_list_))
         IN  Res([w EXCEPT !.lru_stats_.num_find_ok = @ + 1,
                           !.glog = LogFind(@, counted),
                           !.lru_list_[1] = UpdateAccessTimestamp(counted, now)],
                 Leave([fr EXCEPT !.ret = NewAddr(w.lru_list_)]))

\* num_find_ok += 1, the three hooks on the front entry, and the return of
\* a pointer to its value (given as the node's address).
Find_hit(w, fr, now) ==
    IF w.lru_list_ = <<>> THEN Undefined(w, fr)
    ELSE LET counted == IncrementHitCount(Head(w.lru_list_))
         IN  Res([w EXCEPT !.lru_stats_.num_find_ok = @ + 1,
                           !.glog = LogFind(@, counted),
                           !.lru_list_[1] = UpdateAccessTimestamp(counted, now)],
                 Leave([fr EXCEPT !.ret = counted.addr]))

(***************************************************************************)
(* LruMap::Exists, Erase, Clear.                                           *)
(***************************************************************************)
\* Mutant: a key that exists is moved to the front, as Find moves it.
Exists_find_refreshes(w, fr) ==
    LET it == MapFind(w.lru_key_map_, fr.key)
    IN  Res(IF it = NullPtr \/ IndexOf(w.lru_list_, it) = 0 THEN w
            ELSE [w EXCEPT !.lru_list_ = Splice(@, it)],
            Leave([fr EXCEPT !.ret = (it # NullPtr)]))

\* return lru_key_map_.find(key) != lru_key_map_.end().
Exists_find(w, fr) ==
    Res(w, Leave([fr EXCEPT !.ret = (MapFind(w.lru_key_map_, fr.key) # NullPtr)]))

\* Mutant: the call is not counted.
Erase_count_forgotten(w, fr) == Res(w, Goto(fr, "Erase_find"))

\* lru_stats_.num_erase += 1.
Erase_count(w, fr) ==
    Res([w EXCEPT !.lru_stats_.num_erase = @ + 1], Goto(fr, "Erase_find"))

\* map_it = lru_key_map_.find(key); a miss returns.
Erase_find(w, fr) ==
    LET it == MapFind(w.lru_key_map_, fr.key)
    IN  IF it = NullPtr THEN Res(w, Leave([fr EXCEPT !.map_it = it]))
        ELSE Res(w, [fr EXCEPT !.map_it = it, !.pc = "Erase_remove"])

\* Mutant: the entry is erased from the list and its key left in the index.
Erase_remove_keeps_index(w, fr) ==
    IF IndexOf(w.lru_list_, fr.map_it) = 0 THEN Undefined(w, fr)
    ELSE Res([w EXCEPT !.glog = LogErase(@, w.lru_list_[IndexOf(w.lru_list_, fr.map_it)]),
                       !.lru_list_ = ListErase(@, fr.map_it)],
             Leave(fr))

\* Mutant: the node is erased from the list first and the erase hook is
\* given the freed node: a read of freed storage, here one that finds the
\* key but no value.
Erase_remove_logs_freed(w, fr) ==
    IF IndexOf(w.lru_list_, fr.map_it) = 0 THEN Undefined(w, fr)
    ELSE Res([w EXCEPT !.lru_list_ = ListErase(@, fr.map_it),
                       !.glog = LogErase(@, KeyValueEntry(fr.map_it, fr.key, NoValue)),
                       !.ub = TRUE,
                       !.lru_key_map_ = MapErase(@, fr.key)],
             Leave(fr))

\* LogErase(*map_it->second); lru_list_.erase(map_it->second);
\* lru_key_map_.erase(map_it).
Erase_remove(w, fr) ==
    IF IndexOf(w.lru_list_, fr.map_it) = 0 THEN Undefined(w, fr)
    ELSE Res([w EXCEPT !.glog = LogErase(@, w.lru_list_[IndexOf(w.lru_list_, fr.map_it)]),
                       !.lru_list_ = ListErase(@, fr.map_it),
                       !.lru_key_map_ = MapErase(@, fr.key)],
             Leave(fr))

\* lru_list_.clear(); lru_key_map_.clear(); lru_key_map_.reserve(0).
Clear_containers(w, fr) ==
    Res([w EXCEPT !.lru_list_ = <<>>, !.lru_key_map_ = EmptyMap], Goto(fr, "Clear_count"))

\* Mutant: Clear starts the counters again, counting itself.
Clear_count_resets(w, fr) ==
    Res([w EXCEPT !.lru_stats_ = [ZeroStats EXCEPT !.num_clear = w.lru_stats_.num_clear + 1]],
        Leave(fr))

\* lru_stats_.num_clear += 1.
Clear_count(w, fr) ==
    Res([w EXCEPT !.lru_stats_.num_clear = @ + 1], Leave(fr))

(***************************************************************************)
(* The accessors.                                                          *)
(***************************************************************************)
\* LruMap::Capacity: return capacity_ (no lock object).
Capacity_return(w, fr) == Res(w, Goto([fr EXCEPT !.ret = capacity_], "done"))

\* LruMap::Size: return SizePrivate().
Size_return(w, fr) == Res(SizePrivateDCheck(w), Leave([fr EXCEPT !.ret = SizePrivate(w)]))

\* LruMap::Valid: return TimestampingPolicy::Valid(lru_list_).
Valid_audit(w, fr) == Res(w, Leave([fr EXCEPT !.ret = TimestampValid(w.lru_list_)]))

\* LruMap::ToString: the header line, then every entry front to back.
ToString_render(w, fr) ==
    Res(w, Leave([fr EXCEPT !.ret =
        <<"key; value| atime; mtime">>
        \o [i \in 1..Len(w.lru_list_) |-> EntryToString(w.lru_list_[i])]]))

\* LruMap::lru_map_stats: return lru_stats_ (no lock object).  The copy
\* reads the six counters one after the other, in declaration order.
Stats_copy(w, fr) ==
    LET f == StatsFields[fr.i]
        copy == [fr.ret EXCEPT ![f] = w.lru_stats_[f]]
    IN  IF fr.i < Len(StatsFields)
        THEN Res(w, [fr EXCEPT !.ret = copy, !.i = @ + 1])
        ELSE Res(w, Goto([fr EXCEPT !.ret = copy], "done"))

(***************************************************************************)
(* One step of a call, and a call run to its end.                          *)
(***************************************************************************)
\* The statements that read the clock.
ReadsClock(fr) ==
    policy.timestamp = "TimestampAll" /\ fr.pc \in {"Insert_hooks", "Find_hit"}

\* The step of frame fr at its program counter; now is what the clock
\* reads if the step reads it.
Step(w, fr, now) ==
    CASE fr.pc = "lock" -> Lock(w, fr)
      [] fr.pc = "unlock" -> Unlock(w, fr)
      [] fr.pc = "Insert_find" -> Insert_find(w, fr)
      [] fr.pc = "Insert_update" -> Insert_update(w, fr)
      [] fr.pc = "Insert_new" -> Insert_new(w, fr)
      [] fr.pc = "Insert_hooks" -> Insert_hooks(w, fr, now)
      [] fr.pc = "Insert_size" -> Insert_size(w, fr)
      [] fr.pc = "Insert_overflow" -> Insert_overflow(w, fr)
      [] fr.pc = "Insert_evict" -> Insert_evict(w, fr)
      [] fr.pc = "Insert_count" -> Insert_count(w, fr)
      [] fr.pc = "Find_count" -> Find_count(w, fr)
      [] fr.pc = "Find_find" -> Find_find(w, fr)
      [] fr.pc = "Find_splice" -> Find_splice(w, fr)
      [] fr.pc = "Find_hit" -> Find_hit(w, fr, now)
      [] fr.pc = "Exists_find" -> Exists_find(w, fr)
      [] fr.pc = "Erase_count" -> Erase_count(w, fr)
      [] fr.pc = "Erase_find" -> Erase_find(w, fr)
      [] fr.pc = "Erase_remove" -> Erase_remove(w, fr)
      [] fr.pc = "Clear_containers" -> Clear_containers(w, fr)
      [] fr.pc = "Clear_count" -> Clear_count(w, fr)
      [] fr.pc = "Capacity_return" -> Capacity_return(w, fr)
      [] fr.pc = "Size_return" -> Size_return(w, fr)
      [] fr.pc = "Valid_audit" -> Valid_audit(w, fr)
      [] fr.pc = "ToString_render" -> ToString_render(w, fr)
      [] fr.pc = "Stats_copy" -> Stats_copy(w, fr)

\* A frame that takes no further step: returned, halted, or waiting for a
\* mutex that is held.
Stopped(w, fr) == fr.pc \in {"done", "halt", "idle"} \/ Blocked(w, fr)

\* The call of frame fr run without interruption until it stops.
RECURSIVE Run(_, _, _)
Run(w, fr, now) ==
    IF Stopped(w, fr) THEN Res(w, fr)
    ELSE CHOOSE end \in {Run(r.w, r.fr, now) : r \in {Step(w, fr, now)}} : TRUE

(***************************************************************************)
(* The sequential client: LruMap(capacity), then any calls, one at a time. *)
(***************************************************************************)
\* The world's components written back to the variables.
Commit(w) ==
    /\ lru_stats_' = w.lru_stats_
    /\ lru_list_' = w.lru_list_
    /\ lru_key_map_' = w.lru_key_map_
    /\ mutex' = w.mutex
    /\ glog' = w.glog
    /\ aborted' = w.aborted
    /\ dcheck_failed' = w.dcheck_failed
    /\ ub' = w.ub

\* The value a caller reads through the pointer Find returned.
Deref(list, ptr) ==
    IF IndexOf(list, ptr) = 0 THEN NoValue ELSE list[IndexOf(list, ptr)].value

\* Clock readings a call may get: the clock never runs backwards.
Readings == IF policy.timestamp = "TimestampAll" THEN clock..MaxClock ELSE {clock}

\* History: key becomes the most recently used key.
Touch(keys, key) == <<key>> \o SelectSeq(keys, LAMBDA k : k # key)

\* History: "the element is considered used" by every Insert and by a
\* successful Find.
Use(keys, fr) ==
    IF fr.op = "Insert" \/ (fr.op = "Find" /\ fr.ret # NullPtr)
    THEN Touch(keys, fr.key) ELSE keys

\* The client's record of a completed call: what it passed, what it got
\* back (for Find, also the value read through the returned pointer), and
\* whether the call found its key in the index.
Completed(w, fr) ==
    [op |-> fr.op, key |-> fr.key, value |-> fr.value, ret |-> fr.ret,
     found |-> IF fr.op = "Find" THEN Deref(w.lru_list_, fr.ret) ELSE NoValue,
     hit |-> fr.map_it # NullPtr]

\* Mutant: the constructor accepts any capacity.
Construct_unchecked(capacity, pol) ==
    /\ capacity_ = capacity
    /\ policy = pol
    /\ lru_stats_ = ZeroStats
    /\ lru_list_ = <<>>
    /\ lru_key_map_ = EmptyMap
    /\ mutex = 0
    /\ aborted = FALSE
    /\ dcheck_failed = FALSE
    /\ ub = FALSE
    /\ glog = <<>>
    /\ clock = 0

\* LruMap::LruMap(capacity): CHECK_GE(capacity, 1), and empty members.
Construct(capacity, pol) ==
    /\ capacity_ = capacity
    /\ policy = pol
    /\ lru_stats_ = ZeroStats
    /\ lru_list_ = <<>>
    /\ lru_key_map_ = EmptyMap
    /\ mutex = 0
    /\ aborted = (capacity < 1)
    /\ dcheck_failed = FALSE
    /\ ub = FALSE
    /\ glog = <<>>
    /\ clock = 0

\* The bound on counted calls.
MayCall ==
    ~aborted /\
    lru_stats_.num_insert + lru_stats_.num_find
      + lru_stats_.num_erase + lru_stats_.num_clear < MaxOps

\* The single-threaded client calls op(key, value) and gets its result.
Do(op, key, value) ==
    /\ ~aborted
    /\ \E now \in Readings :
         \E r \in {Run(World, Call(1, op, key, value), now)} :
             /\ Commit(r.w)
             /\ clock' = now
             /\ last' = Completed(r.w, r.fr)
             /\ used' = Use(used, r.fr)
    /\ UNCHANGED <<capacity_, policy, frames, lin>>

\* A call of the general client, who follows no script.
Any(op, key, value) == Do(op, key, value) /\ UNCHANGED <<script, hist>>

Insert == MayCall /\ \E key \in Keys, value \in Values : Any("Insert", key, value)

Find == MayCall /\ \E key \in Keys : Any("Find", key, NoValue)

Exists == ~aborted /\ \E key \in Keys : Any("Exists", key, NoValue)

Erase == MayCall /\ \E key \in Keys : Any("Erase", key, NoValue)

Clear == MayCall /\ Any("Clear", 0, NoValue)

Capacity == ~aborted /\ Any("Capacity", 0, NoValue)

Size == ~aborted /\ Any("Size", 0, NoValue)

Valid == ~aborted /\ Any("Valid", 0, NoValue)

ToString == ~aborted /\ Any("ToString", 0, NoValue)

lru_map_stats == ~aborted /\ Any("lru_map_stats", 0, NoValue)

\* No call made yet.
NoCall ==
    [op |-> "None", key |-> 0, value |-> NoValue, ret |-> 0, found |-> NoValue,
     hit |-> FALSE]

Init ==
    /\ \E capacity \in CapArgs : Construct(capacity, DefaultPolicy)
    /\ last = NoCall
    /\ frames = [t \in Threads |-> IdleFrame(t)]
    /\ used = <<>>
    /\ lin = 0
    /\ script = [phase |-> "none", idx |-> 0]
    /\ hist = 0

Next ==
    \/ Insert
    \/ Find
    \/ Exists
    \/ Erase
    \/ Clear
    \/ Capacity
    \/ Size
    \/ Valid
    \/ ToString
    \/ lru_map_stats

Spec == Init /\ [][Next]_vars

\* The client that only inserts and finds.
NextInsertFind ==
    \/ Insert
    \/ Find

SpecInsertFind == Init /\ [][NextInsertFind]_vars

(***************************************************************************)
(* The scripted client, after LruMapTest::Test: it inserts the keys        *)
(* 0, 1, 2, ... in this order, up to twice the capacity, probing the       *)
(* engine in between with calls that touch no entry; once exactly          *)
(* capacity keys are in, it may instead find key 0 and then insert the     *)
(* next key.  Its engine logs overflows (as Test4's).                      *)
(***************************************************************************)
ScriptPolicy == [DefaultPolicy EXCEPT !.log = "LogEventOverflow"]

\* Insert N [0, N) elements, then N [N, 2N) more.
Fill ==
    /\ script.phase = "fill"
    /\ script.idx < 2 * capacity_
    /\ \E value \in Values : Do("Insert", script.idx, value)
    /\ script' = [script EXCEPT !.idx = @ + 1]
    /\ UNCHANGED hist

\* Exists(key) or Size() at any point.
Probe ==
    /\ ~aborted
    /\ \/ \E key \in ScriptKeys : Do("Exists", key, NoValue)
       \/ Do("Size", 0, NoValue)
    /\ UNCHANGED <<script, hist>>

\* With keys 0 .. capacity - 1 just inserted: Find(0).
Refresh ==
    /\ script.phase = "fill"
    /\ script.idx = capacity_
    /\ Do("Find", 0, NoValue)
    /\ script' = [script EXCEPT !.phase = "refreshed"]
    /\ UNCHANGED hist

\* After that Find: Insert of the next, new key.
InsertAfterRefresh ==
    /\ script.phase = "refreshed"
    /\ \E value \in Values : Do("Insert", script.idx, value)
    /\ script' = [phase |-> "evicted", idx |-> script.idx + 1]
    /\ UNCHANGED hist

InitScript ==
    /\ \E capacity \in CapArgs : Construct(capacity, ScriptPolicy)
    /\ last = NoCall
    /\ frames = [t \in Threads |-> IdleFrame(t)]
    /\ used = <<>>
    /\ lin = 0
    /\ script = [phase |-> "fill", idx |-> 0]
    /\ hist = 0

NextScript ==
    \/ Fill
    \/ Probe
    \/ Refresh
    \/ InsertAfterRefresh

SpecScript == InitScript /\ [][NextScript]_vars

(***************************************************************************)
(* The auditing client: an engine instantiated with the policies that     *)
(* keep something per entry or per call, any calls one at a time, and      *)
(* beside the engine a history of what was called and what came back,      *)
(* kept from the calls alone.                                              *)
(***************************************************************************)
\* Test3's instantiation: TimestampAll and HitCountEnabled.
TimedPolicy ==
    [DefaultPolicy EXCEPT !.timestamp = "TimestampAll", !.hit = "HitCountEnabled"]

\* HitCountEnabled and LogEventAll, the two of Test5's that keep no time.
LoggedPolicy ==
    [DefaultPolicy EXCEPT !.hit = "HitCountEnabled", !.log = "LogEventAll"]

FullPolicies == {TimedPolicy, LoggedPolicy}

\* The operations LruMapStats counts the calls of.
Counted == {"Insert", "Find", "Erase", "Clear"}

\* History: f without the keys ks, and f with key k at v.
Without(f, ks) == [k \in DOMAIN f \ ks |-> f[k]]

With(f, k, v) == [x \in DOMAIN f \cup {k} |-> IF x = k THEN v ELSE f[x]]

\* History before any call: the calls made of each counted operation, the
\* Finds that returned an entry, the entries Inserts pushed out, the value
\* last inserted under each key that was not erased, evicted or cleared
\* since, and the Finds that returned each such key's entry since the
\* Insert that created it.
NoHistory ==
    [calls |-> [op \in Counted |-> 0], hits |-> 0, evictions |-> 0,
     written |-> EmptyMap, finds |-> EmptyMap]

\* History after the completed call: before and after are the keys for
\* which the engine held an entry before and after it.  The keys an Insert
\* made the engine drop are the ones it evicted.
Record(h, call, before, after) ==
    LET dropped == IF call.op = "Insert" THEN before \ after ELSE {}
        found == call.op = "Find" /\ call.ret # NullPtr
        created == call.op = "Insert" /\ call.key \notin DOMAIN h.written
    IN  [calls |-> IF call.op \in Counted
                   THEN [h.calls EXCEPT ![call.op] = @ + 1] ELSE h.calls,
         hits |-> IF found THEN h.hits + 1 ELSE h.hits,
         evictions |-> h.evictions + Cardinality(dropped),
         written |->
             CASE call.op = "Insert" -> With(Without(h.written, dropped), call.key, call.value)
               [] call.op = "Erase" -> Without(h.written, {call.key})
               [] call.op = "Clear" -> EmptyMap
               [] OTHER -> h.written,
         finds |->
             CASE created -> With(Without(h.finds, dropped), call.key, 0)
               [] found /\ call.key \in DOMAIN h.finds ->
                      [h.finds EXCEPT ![call.key] = @ + 1]
               [] call.op = "Erase" -> Without(h.finds, {call.key})
               [] call.op = "Clear" -> EmptyMap
               [] OTHER -> h.finds]

\* A call of the auditing client.
Audited(op, key, value) ==
    /\ Do(op, key, value)
    /\ hist' = Record(hist, last', DOMAIN lru_key_map_, DOMAIN lru_key_map_')
    /\ UNCHANGED script

AuditedInsert == MayCall /\ \E key \in Keys, value \in Values : Audited("Insert", key, value)

AuditedFind == MayCall /\ \E key \in Keys : Audited("Find", key, NoValue)

AuditedExists == ~aborted /\ \E key \in Keys : Audited("Exists", key, NoValue)

AuditedErase == MayCall /\ \E key \in Keys : Audited("Erase", key, NoValue)

AuditedClear == MayCall /\ Audited("Clear", 0, NoValue)

AuditedValid == ~aborted /\ Audited("Valid", 0, NoValue)

InitFull ==
    /\ \E capacity \in CapArgs, pol \in FullPolicies : Construct(capacity, pol)
    /\ last = NoCall
    /\ frames = [t \in Threads |-> IdleFrame(t)]
    /\ used = <<>>
    /\ lin = 0
    /\ script = [phase |-> "audit", idx |-> 0]
    /\ hist = NoHistory

NextFull ==
    \/ AuditedInsert
    \/ AuditedFind
    \/ AuditedExists
    \/ AuditedErase
    \/ AuditedClear
    \/ AuditedValid

SpecFull == InitFull /\ [][NextFull]_vars

(***************************************************************************)
(* The concurrent clients: several threads share one engine instantiated   *)
(* with LockStorageStdMutex and LockExclusiveStd (as Test5's), and each    *)
(* makes calls one after the other.  A thread's call advances one Step at  *)
(* a time, so the calls of different threads interleave statement group    *)
(* by statement group wherever the mutex lets them.                        *)
(*                                                                         *)
(* lin is the reference: the same engine on which every locked call is run *)
(* at once, alone, at the moment its thread acquires the mutex.            *)
(***************************************************************************)
ThreadsPolicy ==
    [DefaultPolicy EXCEPT !.lock = "LockExclusiveStd", !.hit = "HitCountEnabled",
                          !.log = "LogEventAll"]

\* The public operations, and the arguments each takes.
Operations ==
    {"Insert", "Find", "Exists", "Erase", "Clear", "Capacity", "Size", "Valid",
     "ToString", "lru_map_stats"}

KeyArgs(op) == IF op \in {"Insert", "Find", "Exists", "Erase"} THEN Keys ELSE {0}

ValueArgs(op) == IF op = "Insert" THEN Values ELSE {NoValue}

\* A thread that is in no call: it has made none yet, or its last has returned.
InNoCall(t) == frames[t].pc = "idle"

\* The call of frame fr run alone on the reference engine.
Linearize(l, fr, now) ==
    LET r == Run(l.w, fr, now)
    IN  [w |-> r.w,
         call |-> [l.call EXCEPT ![fr.tid] = [op |-> fr.op, ret |-> r.fr.ret]],
         contended |-> l.contended
                        \/ \E u \in Threads : u # fr.tid /\ frames[u].pc = "lock"]

\* Thread t calls op(key, value).
ThreadCall(t) ==
    /\ ~aborted
    /\ InNoCall(t)
    /\ script.idx < MaxCalls
    /\ \E op \in Operations :
         \E key \in KeyArgs(op), value \in ValueArgs(op) :
             frames' = [frames EXCEPT ![t] = Call(t, op, key, value)]
    /\ script' = [script EXCEPT !.idx = @ + 1]
    /\ UNCHANGED <<capacity_, lru_stats_, lru_list_, lru_key_map_, mutex, policy,
                   clock, glog, aborted, dcheck_failed, ub, last, used, lin, hist>>

\* No call of thread t is on the reference engine.
NoReference == [op |-> "None", ret |-> 0]

\* Thread t executes the next statement group of its call.  When the call
\* returns its frame is gone: the thread is in no call again.
ThreadMove(t) ==
    /\ ~aborted
    /\ ~Stopped(World, frames[t])
    /\ \E now \in Readings :
         \E r \in {Step(World, frames[t], now)} :
             /\ Commit(r.w)
             /\ frames' = [frames EXCEPT ![t] =
                               IF r.fr.pc = "done" THEN IdleFrame(t) ELSE r.fr]
             /\ clock' = IF ReadsClock(frames[t]) THEN now ELSE clock
             /\ lin' = CASE frames[t].pc = "lock" -> Linearize(lin, frames[t], now)
                         [] r.fr.pc = "done" -> [lin EXCEPT !.call[t] = NoReference]
                         [] OTHER -> lin
    /\ UNCHANGED <<capacity_, policy, used, hist>>

\* The threads keep nothing of a call that returned.
ThreadStep(t) == ThreadMove(t) /\ UNCHANGED <<last, script>>

InitThreads ==
    /\ \E capacity \in CapArgs : Construct(capacity, ThreadsPolicy)
    /\ last = NoCall
    /\ frames = [t \in Threads |-> IdleFrame(t)]
    /\ used = <<>>
    /\ lin = [w |-> World, call |-> [t \in Threads |-> NoReference],
              contended |-> FALSE]
    /\ script = [phase |-> "threads", idx |-> 0]
    /\ hist = 0

NextThreads ==
    \E t \in Threads :
        \/ ThreadCall(t)
        \/ ThreadStep(t)

SpecThreads == InitThreads /\ [][NextThreads]_vars

\* Where each thread is in its call.  Every step of a call changes it.
position == [t \in Threads |-> <<frames[t].pc, frames[t].i>>]

\* The scheduler runs every thread that can run: a thread whose next step
\* stays possible takes it.
SpecThreadsFair == SpecThreads /\ \A t \in Threads : WF_position(ThreadStep(t))

(***************************************************************************)
(* What a call would return in the current state.                          *)
(***************************************************************************)
Returned(op, key) == Run(World, Call(1, op, key, NoValue), clock).fr.ret

SizeNow == Returned("Size", 0)

CapacityNow == Returned("Capacity", 0)

ExistsNow(key) == Returned("Exists", key)

\* The value Find(key) would give, NoValue when it would return a null pointer.
FindNow(key) ==
    LET r == Run(World, Call(1, "Find", key, NoValue), clock)
    IN  Deref(r.w.lru_list_, r.fr.ret)

\* The pointer Find(key) would return.
FindPtrNow(key) == Returned("Find", key)

\* The keys of the list, front to back.
KeyOrder == [i \in 1..Len(lru_list_) |-> lru_list_[i].key]

Min(a, b) == IF a <= b THEN a ELSE b

(***************************************************************************)
(* The claims.                                                             *)
(***************************************************************************)
\* C1: for an engine constructed with capacity C >= 1, Size() <= Capacity()
\* in the constructed state and after every call, and no call changes what
\* Capacity() returns.
C1_CapacityBound ==
    /\ [](~aborted => SizeNow <= CapacityNow /\ CapacityNow = capacity_)
    /\ [][capacity_' = capacity_]_vars

\* C1 witness: an Insert has overflowed and the engine is full.
C1_Witness ==
    ~aborted /\ last.op = "Insert" /\ lru_stats_.num_overflow > 0 /\ SizeNow = CapacityNow

\* C2: after every call the list and the index are mutually consistent:
\* same size, every index key locates a list entry with that key, every
\* list entry's key is in the index and located at that entry, no key
\* twice in the list, and Size() is the list's length.
C2_IndexListConsistent ==
    ~aborted =>
        /\ Len(lru_list_) = Cardinality(DOMAIN lru_key_map_)
        /\ \A k \in DOMAIN lru_key_map_ :
              /\ IndexOf(lru_list_, lru_key_map_[k]) # 0
              /\ lru_list_[IndexOf(lru_list_, lru_key_map_[k])].key = k
        /\ \A i \in 1..Len(lru_list_) :
              /\ lru_list_[i].key \in DOMAIN lru_key_map_
              /\ lru_key_map_[lru_list_[i].key] = lru_list_[i].addr
        /\ \A i, j \in 1..Len(lru_list_) :
              i # j => /\ lru_list_[i].key # lru_list_[j].key
                       /\ lru_list_[i].addr # lru_list_[j].addr
        /\ SizeNow = Len(lru_list_)

\* C2 witness: an entry has been evicted, another erased, and entries remain.
C2_Witness ==
    /\ lru_stats_.num_overflow > 0
    /\ last.op = "Erase" /\ last.hit
    /\ Len(lru_list_) > 0

\* C3: after Insert and Find calls only, the list holds exactly the
\* min(C, d) most recently used keys, d the number of distinct keys ever
\* inserted, front to back from the most to the least recently used.
C3_MostRecentlyUsed ==
    ~aborted => KeyOrder = SubSeq(used, 1, Min(capacity_, Len(used)))

\* C3 witness: more keys were inserted than fit, and the last call was a
\* Find that hit an entry that was not at the front.
C3_Witness ==
    /\ Len(used) > capacity_
    /\ last.op = "Find" /\ last.hit
    /\ lru_stats_.num_find_ok = 1
    /\ lru_stats_.num_insert = capacity_ + 1
    /\ capacity_ >= 2


\* The keys of the entries the overflow events name, oldest event first.
Evicted ==
    LET overflows == SelectSeq(glog, LAMBDA line : line[1] = "Overflow")
    IN  [i \in 1..Len(overflows) |-> overflows[i][2][1]]

\* C4: while the scripted client has only inserted the distinct keys
\* 0, 1, ..., n - 1 in order into an empty engine of capacity C, the keys
\* evicted so far are 0, 1, ..., n - C - 1 in this order, one per
\* overflowing Insert; exactly the last min(n, C) keys are present and
\* Size() is min(n, C); so after 2C Inserts the first C keys are absent and
\* the last C present.
C4_EvictionInInsertionOrder ==
    (~aborted /\ script.phase = "fill") =>
        LET n == script.idx
            gone == Max(0, n - capacity_)
        IN  /\ Evicted = [i \in 1..gone |-> i - 1]
            /\ lru_stats_.num_overflow = gone
            /\ \A key \in ScriptKeys : ExistsNow(key) <=> (gone <= key /\ key < n)
            /\ SizeNow = Min(n, capacity_)

\* C4 witness: 2C keys have been inserted into the largest engine.
C4_Witness ==
    /\ script.phase = "fill" /\ script.idx = 2 * capacity_ /\ capacity_ = MaxCap
    /\ last.op = "Insert" /\ ~ExistsNow(capacity_ - 1) /\ ExistsNow(capacity_)

\* C5: with capacity C >= 2 and keys 0 .. C-1 inserted in order into an empty
\* engine, Find(0) followed by the Insert of one new key evicts key 1 and
\* not key 0.
C5_FindRefreshesRecency ==
    (~aborted /\ script.phase = "evicted" /\ capacity_ >= 2) =>
        /\ Evicted = <<1>>
        /\ ExistsNow(0)
        /\ ~ExistsNow(1)
        /\ \A key \in 2..capacity_ : ExistsNow(key)

\* C5 witness: the Insert after the Find has been made, on an engine of
\* capacity at least 2.
C5_Witness ==
    /\ script.phase = "evicted" /\ capacity_ >= 2
    /\ last.op = "Insert" /\ last.key = capacity_ /\ ~last.hit
    /\ lru_stats_.num_find_ok = 1


\* C6: an Insert(k, v2) of a key that is present moves k's entry to the
\* front and gives it the value v2, changes neither Size() nor
\* num_overflow, keeps every key present and the other entries in their
\* order, and a Find(k) after it returns v2.
C6_OverwriteInsert ==
    [][\A k \in Keys :
          (~aborted /\ last'.op = "Insert" /\ last'.key = k /\ k \in DOMAIN lru_key_map_) =>
              /\ Head(lru_list_').key = k
              /\ Head(lru_list_').value = last'.value
              /\ KeyOrder' = Touch(KeyOrder, k)
              /\ SizeNow' = SizeNow
              /\ lru_stats_'.num_overflow = lru_stats_.num_overflow
              /\ \A key \in Keys : ExistsNow(key)' = ExistsNow(key)
              /\ FindNow(k)' = last'.value]_vars

\* C6 witness: the last call overwrote, in the largest engine when full, an
\* entry that was at the back.
C6_Witness ==
    /\ last.op = "Insert" /\ last.hit
    /\ capacity_ = MaxCap /\ SizeNow = CapacityNow
    /\ lru_stats_.num_insert = capacity_ + 1
    /\ lru_stats_.num_find + lru_stats_.num_erase + lru_stats_.num_clear = 0
    /\ used # <<>> /\ KeyOrder = used /\ Head(lru_list_).value = 2016
    /\ \A i \in 2..Len(lru_list_) : lru_list_[i].value = 5

\* C7: in the state an Insert(k, v) leaves, Find(k) returns v, and in the
\* state an Erase(k) leaves, Find(k) returns a null pointer; and so do the
\* Find(k) calls the client makes right after an Insert(k, v) or an Erase(k).
C7_RoundTrip ==
    /\ [](~aborted =>
            /\ last.op = "Insert" =>
                  FindPtrNow(last.key) # NullPtr /\ FindNow(last.key) = last.value
            /\ last.op = "Erase" => FindPtrNow(last.key) = NullPtr)
    /\ [][~aborted =>
            /\ (last.op = "Insert" /\ last'.op = "Find" /\ last'.key = last.key) =>
                  last'.ret # NullPtr /\ last'.found = last.value
            /\ (last.op = "Erase" /\ last'.op = "Find" /\ last'.key = last.key) =>
                  last'.ret = NullPtr]_vars

\* C7 witness: Insert(k, 2016), Find(k) giving 2016, Erase(k), Find(k)
\* giving null, and no other counted call: the counters and the emptiness
\* of the engine leave no other order.
C7_Witness ==
    /\ lru_stats_ = [ZeroStats EXCEPT !.num_insert = 1, !.num_find = 2,
                                      !.num_find_ok = 1, !.num_erase = 1]
    /\ last.op = "Find" /\ last.ret = NullPtr
    /\ used = <<last.key>>
    /\ lru_list_ = <<>>

(***************************************************************************)
(* The concurrent engine.                                                  *)
(***************************************************************************)
\* No thread is inside a call.
Quiescent == \A t \in Threads : InNoCall(t)

\* The operations that take the lock.
Locked == Operations \ Unlocked

\* Thread t is executing statements of its operation's body.
InBody(t) == frames[t].pc \notin {"idle", "halt", "lock"}

\* The operations that write to the members.
Mutating == {"Insert", "Find", "Erase", "Clear"}

\* C8: with LockExclusiveStd, however the calls of the threads interleave,
\* no container operation is ever applied outside its precondition and no
\* DCHECK fails; whenever no call is in progress the list and the index
\* have one size, Size() is at most the capacity and the index and the
\* list locate the same entries; and the outcome is that of the calls run
\* one at a time in the order they took the mutex: every locked call has
\* returned what it returns in that order, and the members and the log
\* are what that order leaves.
C8_ExclusiveInterleavings ==
    /\ ~ub /\ ~dcheck_failed
    /\ \A t \in Threads :
          frames[t].pc = "unlock" => frames[t].ret = lin.call[t].ret
    /\ (Quiescent /\ ~aborted) =>
          /\ Len(lru_list_) = Cardinality(DOMAIN lru_key_map_)
          /\ SizeNow <= CapacityNow
          /\ \A k \in DOMAIN lru_key_map_ :
                /\ IndexOf(lru_list_, lru_key_map_[k]) # 0
                /\ lru_list_[IndexOf(lru_list_, lru_key_map_[k])].key = k
          /\ \A i \in 1..Len(lru_list_) :
                /\ lru_list_[i].key \in DOMAIN lru_key_map_
                /\ lru_key_map_[lru_list_[i].key] = lru_list_[i].addr
          /\ World = lin.w

\* C8 witness: all the calls have been made and have returned, a Find or
\* an Erase among them, one of them having taken the mutex while another
\* thread waited for it, and an Insert has evicted an entry.
C8_Witness ==
    /\ Quiescent
    /\ script.idx = MaxCalls
    /\ lin.contended
    /\ lru_stats_.num_overflow > 0
    /\ lru_stats_.num_find + lru_stats_.num_erase > 0

\* C9: with LockExclusiveStd, the mutex is held only by a thread that is
\* inside the body of a locking operation, so it is free whenever no
\* operation is executing; no thread waits for the mutex it holds; as long
\* as a call is in progress some thread can take a step; and, under fair
\* scheduling, every call returns.
C9_MutexReleasedAndCallsReturn ==
    /\ [](/\ \A t \in Threads : mutex = t => (InBody(t) /\ frames[t].op \in Locked)
          /\ Quiescent => mutex = 0
          /\ \A t \in Threads : frames[t].pc = "lock" => mutex # t
          /\ (~aborted /\ ~Quiescent) => \E t \in Threads : ~Stopped(World, frames[t]))
    /\ \A t \in Threads : (~aborted /\ ~InNoCall(t)) ~> InNoCall(t)

\* C9 witness: a thread waits for the mutex while another, holding it, is
\* about to leave Find by its early return on a miss.
C9_Witness ==
    \E t, u \in Threads :
        /\ Blocked(World, frames[t])
        /\ mutex = u
        /\ frames[u].op = "Find" /\ frames[u].pc = "unlock" /\ frames[u].ret = NullPtr

\* C10: with LockExclusiveStd, a thread executing the body of any public
\* operation holds the mutex, so no thread reads the members while another
\* thread is inside the body of a mutating operation.
C10_EveryOperationHoldsTheMutex ==
    /\ \A t \in Threads : InBody(t) => mutex = t
    /\ \A t, u \in Threads :
          (t # u /\ InBody(u) /\ frames[u].op \in Mutating) => ~InBody(t)

\* C10, the divergence: lru_map_stats has returned counters that the
\* engine has between no two calls: an overflow counted and the insert
\* that caused it not counted.
C10_Witness ==
    \E t \in Threads :
        /\ frames[t].op = "lru_map_stats" /\ frames[t].i > 2
        /\ frames[t].ret.num_overflow > 0
        /\ frames[t].ret.num_insert < capacity_ + frames[t].ret.num_overflow

(***************************************************************************)
(* Misses and the read-only calls.                                         *)
(***************************************************************************)
\* No CHECK or DCHECK has failed and no container was misused.
NoError == ~aborted /\ ~dcheck_failed /\ ~ub

\* C11: a Find(k) of a key for which Exists(k) is false returns a null
\* pointer, fails no check, and leaves the list (its order and every
\* entry's value, timestamps and hit counter), the index and the log as
\* they were; of the counters it changes num_find alone, by one.
C11_FindMiss ==
    [][\A k \in Keys :
          (~aborted /\ last'.op = "Find" /\ last'.key = k /\ ~ExistsNow(k)) =>
              /\ last'.ret = NullPtr
              /\ NoError'
              /\ lru_list_' = lru_list_
              /\ lru_key_map_' = lru_key_map_
              /\ glog' = glog
              /\ lru_stats_' = [lru_stats_ EXCEPT !.num_find = @ + 1]]_vars

\* C11 witness: a Find has missed in an engine that keeps timestamps and
\* holds an entry found before, at a later time than it was inserted.
C11_Witness ==
    /\ last.op = "Find" /\ last.ret = NullPtr
    /\ policy.timestamp = "TimestampAll"
    /\ lru_stats_.num_find_ok > 0
    /\ \E i \in 1..Len(lru_list_) :
          /\ lru_list_[i].hit_count > 0
          /\ lru_list_[i].access_time_usecs > lru_list_[i].modify_time_usecs

\* C12: an Erase(k) of a key for which Exists(k) is false fails no check,
\* logs nothing, leaves the list, the index and Size() as they were and
\* changes no counter but num_erase; and every Erase, hitting or missing,
\* adds one to num_erase.
C12_EraseMiss ==
    [][/\ (~aborted /\ last'.op = "Erase") =>
              lru_stats_'.num_erase = lru_stats_.num_erase + 1
       /\ \A k \in Keys :
             (~aborted /\ last'.op = "Erase" /\ last'.key = k /\ ~ExistsNow(k)) =>
                 /\ NoError'
                 /\ glog' = glog
                 /\ lru_list_' = lru_list_
                 /\ lru_key_map_' = lru_key_map_
                 /\ SizeNow' = SizeNow
                 /\ lru_stats_' = [lru_stats_ EXCEPT !.num_erase = @ + 1]]_vars

\* C12 witness: an Erase has missed after another had hit, in an engine
\* that logs every event and still holds an entry.
C12_Witness ==
    /\ last.op = "Erase" /\ ~last.hit
    /\ policy.log = "LogEventAll"
    /\ lru_stats_.num_erase = 2
    /\ \E i \in 1..Len(glog) : glog[i][1] = "Erase"
    /\ lru_list_ # <<>>

\* C13: Exists(k) returns true exactly when k is in the index, and changes
\* nothing: not the list (order, values, timestamps, hit counters), not
\* the index, not a counter, not the log.  In particular,
\* when the engine is full and Exists was just called on the key at the
\* back of the list, an Insert of a key that is not held still evicts
\* that key.
C13_ExistsReadOnly ==
    /\ [](( /\ ~aborted /\ last.op = "Exists" /\ Len(lru_list_) = capacity_
            /\ last.key = lru_list_[Len(lru_list_)].key) =>
             \A k \in Keys \ DOMAIN lru_key_map_ :
                 last.key \notin
                     DOMAIN Run(World, Call(1, "Insert", k, 5), clock).w.lru_key_map_)
    /\ [][(~aborted /\ last'.op = "Exists") =>
             /\ last'.ret = (last'.key \in DOMAIN lru_key_map_)
             /\ NoError'
             /\ UNCHANGED <<lru_list_, lru_key_map_, lru_stats_, glog,
                            capacity_, mutex>>]_vars

\* C13 witness: Exists has returned true for the key at the back of a full
\* list of two, in an engine that logs every event and has logged some.
C13_Witness ==
    /\ last.op = "Exists" /\ last.ret = TRUE
    /\ Len(lru_list_) = capacity_ /\ capacity_ = 2
    /\ last.key = lru_list_[Len(lru_list_)].key
    /\ policy.log = "LogEventAll" /\ glog # <<>>

(***************************************************************************)
(* The engine against the history of its calls.                            *)
(***************************************************************************)
\* C14: in every reachable state and for every key k, Exists(k) is true
\* exactly when a Find(k) made now returns a non-null pointer, and then
\* the value behind that pointer is the one given to the most recent
\* Insert(k, .), which no Erase, eviction or Clear has followed.
C14_ExistsAgreesWithFind ==
    ~aborted =>
        \A k \in Keys :
            /\ ExistsNow(k) <=> (FindPtrNow(k) # NullPtr)
            /\ FindPtrNow(k) # NullPtr =>
                  /\ k \in DOMAIN hist.written
                  /\ FindNow(k) = hist.written[k]

\* C14 witness: after an eviction, the key that stayed was inserted again
\* with the other value, which is the one Find gives now.
C14_Witness ==
    /\ last.op = "Insert" /\ last.hit /\ last.value = 2016
    /\ hist.evictions > 0
    /\ hist.calls["Insert"] = 3
    /\ ExistsNow(last.key) /\ FindNow(last.key) = 2016
    /\ \E k \in Keys : ~ExistsNow(k)

\* The engine after n more Inserts, of the keys 0 .. n - 1.
RECURSIVE Refilled(_, _)
Refilled(w, n) ==
    IF n = 0 THEN w
    ELSE Run(Refilled(w, n - 1), Call(1, "Insert", n - 1, 5), clock).w

\* What lru_map_stats() would return in the current state.
StatsNow == Returned("lru_map_stats", 0)

\* C15: Clear() empties the list and the index, so that Size() is 0 and
\* Exists(k) false for every k; it adds one to num_clear and leaves the
\* five other counters and the capacity as they were; and the engine it
\* leaves takes capacity Inserts of distinct keys without evicting any.
C15_Clear ==
    /\ []((~aborted /\ last.op = "Clear") =>
             LET w == Refilled(World, capacity_)
             IN  /\ Len(w.lru_list_) = capacity_
                 /\ w.lru_stats_.num_overflow = lru_stats_.num_overflow
                 /\ ~w.aborted /\ ~w.dcheck_failed /\ ~w.ub)
    /\ [][(~aborted /\ last'.op = "Clear") =>
             /\ lru_list_' = <<>>
             /\ DOMAIN lru_key_map_' = {}
             /\ SizeNow' = 0
             /\ \A k \in Keys : ~ExistsNow(k)'
             /\ lru_stats_' = [lru_stats_ EXCEPT !.num_clear = @ + 1]
             /\ capacity_' = capacity_
             /\ CapacityNow' = CapacityNow]_vars

\* C15 witness: Clear has emptied an engine whose other counters had all
\* been raised but num_erase, an eviction and a successful Find included.
C15_Witness ==
    /\ last.op = "Clear"
    /\ lru_stats_.num_clear = 1
    /\ lru_stats_.num_insert = 2 /\ lru_stats_.num_overflow = 1
    /\ lru_stats_.num_find = 1 /\ lru_stats_.num_find_ok = 1
    /\ SizeNow = 0

\* C16: in every reachable state the counters lru_map_stats() returns are
\* the counts of the history: num_insert the Insert calls, num_overflow the
\* entries Inserts pushed out, num_find the Find calls, num_find_ok the
\* Find calls that returned an entry, num_erase the Erase calls, num_clear
\* the Clear calls.
C16_StatsAreLifetimeCounts ==
    ~aborted =>
        \E stats \in {StatsNow} :
            /\ stats.num_insert = hist.calls["Insert"]
            /\ stats.num_overflow = hist.evictions
            /\ stats.num_find = hist.calls["Find"]
            /\ stats.num_find_ok = hist.hits
            /\ stats.num_erase = hist.calls["Erase"]
            /\ stats.num_clear = hist.calls["Clear"]

\* C16 witness: two Inserts of distinct keys into an engine of capacity 1,
\* then two Finds of which one hit: 2 inserts, 1 overflow, 2 finds, 1 ok.
C16_Witness ==
    /\ capacity_ = 1
    /\ last.op = "Find"
    /\ hist.calls["Insert"] = 2 /\ hist.evictions = 1
    /\ hist.calls["Find"] = 2 /\ hist.hits = 1
    /\ StatsNow = [ZeroStats EXCEPT !.num_insert = 2, !.num_overflow = 1,
                                    !.num_find = 2, !.num_find_ok = 1]

(***************************************************************************)
(* The per-entry policies.                                                 *)
(***************************************************************************)
\* What Valid() would return in the current state.
ValidNow == Returned("Valid", 0)

\* The newer of an entry's two timestamps.
Recent(e) == Max(e.access_time_usecs, e.modify_time_usecs)

\* C17: with TimestampAll and a clock that never reads less than it read
\* before, in every reachable state (that of the engine just constructed
\* included) Valid() returns true, and from the front of the list to its
\* back the newer of each entry's two timestamps never increases.
C17_ValidAlways ==
    (~aborted /\ policy.timestamp = "TimestampAll") =>
        /\ ValidNow = TRUE
        /\ \A i \in 1..(Len(lru_list_) - 1) :
              Recent(lru_list_[i]) >= Recent(lru_list_[i + 1])

\* C17 witness: Valid() has returned true on a list of two whose front
\* entry was found later than the back entry was inserted, after an Erase.
C17_Witness ==
    /\ policy.timestamp = "TimestampAll"
    /\ last.op = "Valid" /\ last.ret = TRUE
    /\ Len(lru_list_) = 2
    /\ lru_list_[1].access_time_usecs > lru_list_[1].modify_time_usecs
    /\ Recent(lru_list_[1]) > Recent(lru_list_[2])
    /\ Recent(lru_list_[2]) > 0
    /\ lru_stats_.num_erase = 1

\* C18: the constructor aborts exactly when its capacity is less than 1,
\* and then no call is ever made on the engine; constructed with a
\* capacity of at least 1 the engine is empty: before any call Size() is 0,
\* Capacity() the capacity given and Valid() true.
C18_Construction ==
    /\ [](/\ aborted <=> capacity_ < 1
          /\ aborted => (last = NoCall /\ lru_list_ = <<>> /\ hist = NoHistory)
          /\ (~aborted /\ last = NoCall) =>
                /\ SizeNow = 0
                /\ \A k \in Keys : ~ExistsNow(k)
                /\ CapacityNow = capacity_
                /\ ValidNow = TRUE
                /\ StatsNow = ZeroStats)
    /\ [][~aborted]_vars

\* C18 witness: the constructor was given a negative capacity and aborted.
C18_Witness ==
    /\ capacity_ < 0 /\ aborted
    /\ policy.timestamp = "TimestampAll"

\* The list entry of key k, which the list holds.
EntryOf(list, k) == list[CHOOSE i \in 1..Len(list) : list[i].key = k]

\* The keys of the entries of the list.
Held(list) == {list[i].key : i \in 1..Len(list)}

\* C19: with HitCountEnabled, in every reachable state the hit counter of
\* each entry is the number of Finds that returned it since the Insert
\* that created it.  A step changes the counter of no entry that stays,
\* but a Find that returns an entry, which adds one to that entry's
\* counter alone; and an entry that a step creates has counter 0.
C19_HitCount ==
    /\ []((~aborted /\ policy.hit = "HitCountEnabled") =>
             \A k \in Held(lru_list_) :
                 /\ k \in DOMAIN hist.finds
                 /\ EntryOf(lru_list_, k).hit_count = hist.finds[k])
    /\ [][(~aborted /\ policy.hit = "HitCountEnabled") =>
             /\ \A k \in Held(lru_list_) \cap Held(lru_list_') :
                   EntryOf(lru_list_', k).hit_count =
                       EntryOf(lru_list_, k).hit_count
                         + (IF last'.op = "Find" /\ last'.key = k /\ last'.ret # NullPtr
                            THEN 1 ELSE 0)
             /\ \A k \in Held(lru_list_') \ Held(lru_list_) :
                   EntryOf(lru_list_', k).hit_count = 0]_vars

\* C19 witness: the log shows a key inserted, found, erased and inserted
\* again; the erased entry had counter 1 and the one now held has 0.
C19_Witness ==
    /\ policy.log = "LogEventAll"
    /\ Len(glog) = 4
    /\ glog[1][1] = "Insert" /\ glog[2][1] = "Find"
    /\ glog[3][1] = "Erase" /\ glog[4][1] = "Insert"
    /\ \A i \in 1..4 : glog[i][2][1] = last.key
    /\ glog[3][2][3] = 1
    /\ last.op = "Insert"
    /\ Held(lru_list_) = {last.key}
    /\ EntryOf(lru_list_, last.key).hit_count = 0

\* C20: with TimestampAll, the access time of an entry no Find has
\* returned is 0.  A step changes the access time of an entry that stays
\* only if it is a Find that returns it, and the modify time only if it
\* is an Insert of its key, fresh or overwriting; each is then the clock's
\* reading.  An entry a step creates has access time 0 and the reading as
\* modify time.
C20_Timestamps ==
    /\ []((~aborted /\ policy.timestamp = "TimestampAll") =>
             \A k \in Held(lru_list_) :
                 (k \in DOMAIN hist.finds /\ hist.finds[k] = 0) =>
                     EntryOf(lru_list_, k).access_time_usecs = 0)
    /\ [][(~aborted /\ policy.timestamp = "TimestampAll") =>
             /\ \A k \in Held(lru_list_) \cap Held(lru_list_') :
                   /\ EntryOf(lru_list_', k).access_time_usecs =
                         IF last'.op = "Find" /\ last'.key = k /\ last'.ret # NullPtr
                         THEN clock' ELSE EntryOf(lru_list_, k).access_time_usecs
                   /\ EntryOf(lru_list_', k).modify_time_usecs =
                         IF last'.op = "Insert" /\ last'.key = k
                         THEN clock' ELSE EntryOf(lru_list_, k).modify_time_usecs
             /\ \A k \in Held(lru_list_') \ Held(lru_list_) :
                   /\ last'.op = "Insert" /\ last'.key = k
                   /\ EntryOf(lru_list_', k).access_time_usecs = 0
                   /\ EntryOf(lru_list_', k).modify_time_usecs = clock']_vars

\* C20 witness: an overwriting Insert at time 2 of an entry found at time 1
\* has left its access time at 1, beside an entry never found.
C20_Witness ==
    /\ policy.timestamp = "TimestampAll"
    /\ last.op = "Insert" /\ last.hit
    /\ Len(lru_list_) = 2
    /\ lru_list_[1].access_time_usecs = 1 /\ lru_list_[1].modify_time_usecs = 2
    /\ lru_list_[2].access_time_usecs = 0 /\ lru_list_[2].modify_time_usecs = 0

(***************************************************************************)
(* The auditing client again, on engines that differ in the logging policy *)
(* alone or nearly: LogEventNone, LogEventOverflow and LogEventAll.        *)
(***************************************************************************)
LogPolicies == {DefaultPolicy, ScriptPolicy, LoggedPolicy}

InitLogs ==
    /\ \E capacity \in CapArgs, pol \in LogPolicies : Construct(capacity, pol)
    /\ last = NoCall
    /\ frames = [t \in Threads |-> IdleFrame(t)]
    /\ used = <<>>
    /\ lin = 0
    /\ script = [phase |-> "audit", idx |-> 0]
    /\ hist = NoHistory

SpecLogs == InitLogs /\ [][NextFull]_vars

(***************************************************************************)
(* The logging policies.                                                   *)
(***************************************************************************)
\* The events LogEventAll owes for a completed call that took the list
\* from before to after: for an Insert the entry then at the front and
\* after it each entry the list lost; for a Find that returned an entry,
\* that entry; for an Erase that found its key, the entry it removed.
Owed(call, before, after) ==
    LET lost == Held(before) \ Held(after)
    IN  CASE call.op = "Insert" /\ after # <<>> ->
                 <<<<"Insert", EntryToString(after[1])>>>>
                 \o (IF lost = {} THEN <<>>
                     ELSE <<<<"Overflow", EntryToString(EntryOf(before, CHOOSE k \in lost : TRUE))>>>>)
          [] call.op = "Find" /\ call.ret # NullPtr /\ after # <<>> ->
                 <<<<"Find", EntryToString(after[1])>>>>
          [] call.op = "Erase" /\ call.key \in Held(before) ->
                 <<<<"Erase", EntryToString(EntryOf(before, call.key))>>>>
          [] OTHER -> <<>>

\* The overflow events among events.
Overflows(events) == SelectSeq(events, LAMBDA ev : ev[1] = "Overflow")

\* C21: with LogEventAll a call appends to the log exactly the events
\* owed: one Insert event per Insert, followed by one Overflow event with
\* the evicted entry when it evicts, one Find event per Find that returns
\* an entry, one Erase event per Erase that finds its key, and nothing for
\* a missing Find or Erase, Exists, Clear or Valid.  With LogEventOverflow
\* it appends the Overflow events among those and nothing else, with
\* LogEventNone nothing.  And whatever the logging policy, the list, the
\* index and the counters are what the calls made determine: the keys
\* written and not erased, evicted or cleared since, in the order of their
\* last use, with the values last written, and the counts of the calls.
C21_LogEvents ==
    /\ [](~aborted =>
             /\ KeyOrder = SelectSeq(used, LAMBDA k : k \in DOMAIN hist.written)
             /\ DOMAIN lru_key_map_ = DOMAIN hist.written
             /\ \A i \in 1..Len(lru_list_) :
                   lru_list_[i].value = hist.written[lru_list_[i].key]
             /\ lru_stats_ = [num_insert |-> hist.calls["Insert"],
                              num_overflow |-> hist.evictions,
                              num_find |-> hist.calls["Find"],
                              num_find_ok |-> hist.hits,
                              num_erase |-> hist.calls["Erase"],
                              num_clear |-> hist.calls["Clear"]])
    /\ [][~aborted =>
             /\ Cardinality(Held(lru_list_) \ Held(lru_list_')) <= 1
                  \/ last'.op = "Clear"
             /\ glog' = glog \o
                   (CASE policy.log = "LogEventAll" -> Owed(last', lru_list_, lru_list_')
                      [] policy.log = "LogEventOverflow" ->
                             Overflows(Owed(last', lru_list_, lru_list_'))
                      [] OTHER -> <<>>)]_vars

\* C21 witness: with LogEventAll, an Insert, a Find that hit, an Insert
\* that evicted and an Erase that hit have left five events in the log.
C21_Witness ==
    /\ policy.log = "LogEventAll"
    /\ Len(glog) = 5
    /\ glog[1][1] = "Insert" /\ glog[2][1] = "Find" /\ glog[3][1] = "Insert"
    /\ glog[4][1] = "Overflow" /\ glog[5][1] = "Erase"
    /\ glog[4][2][1] = glog[1][2][1] /\ glog[5][2][1] = glog[3][2][1]
    /\ lru_list_ = <<>>

(***************************************************************************)
(* The concurrent clients again, now keeping the pointer a Find returned   *)
(* and reading the value through it later, as the comment on Find lets     *)
(* them: "the returned pointer may become stale through other operations,  *)
(* the client is required to protect against that".                        *)
(*                                                                         *)
(* last is the latest Find that returned an entry, and script.phase says   *)
(* what became of its pointer: "fresh" from the return on, "stale" once a  *)
(* thread has taken the mutex for an Insert, Find, Erase or Clear, "freed" *)
(* once the node it points to has left the list, "read" once the caller    *)
(* has read the value through it.                                          *)
(***************************************************************************)
\* The phase of the kept pointer after thread t's step.
Kept(t) ==
    LET fr == frames[t]
    IN  CASE fr.op = "Find" /\ fr.pc = "unlock" /\ fr.ret # NullPtr -> "fresh"
          [] script.phase \in {"fresh", "stale"} /\ last.ret \notin Addrs(lru_list_') -> "freed"
          [] script.phase = "fresh" /\ fr.pc = "lock" /\ fr.op \in Mutating -> "stale"
          [] OTHER -> script.phase

\* Thread t executes the next statement group of its call; the pointer of
\* a Find that returns an entry is kept.
ReaderStep(t) ==
    /\ ThreadMove(t)
    /\ last' = IF frames[t].op = "Find" /\ frames[t].pc = "unlock" /\ frames[t].ret # NullPtr
               THEN [op |-> "Find", key |-> frames[t].key, value |-> NoValue,
                     ret |-> frames[t].ret, found |-> NoValue, hit |-> TRUE]
               ELSE last
    /\ script' = [script EXCEPT !.phase = Kept(t)]

\* A thread is assigning the value of the entry of key (line 314).
Assigning(key) ==
    \E u \in Threads : frames[u].pc = "Insert_update" /\ frames[u].key = key

\* The caller reads the value through the kept pointer, holding no lock.
\* Reading a node that was freed, or one another thread is assigning, is
\* undefined: any value may be read.
ReadValue ==
    /\ ~aborted
    /\ script.phase \in {"fresh", "stale", "freed"}
    /\ IF script.phase = "freed" \/ Assigning(last.key)
       THEN /\ ub' = TRUE
            /\ \E v \in Values \cup {NoValue} : last' = [last EXCEPT !.found = v]
       ELSE /\ ub' = ub
            /\ last' = [last EXCEPT !.found = Deref(lru_list_, last.ret)]
    /\ script' = [script EXCEPT !.phase = "read"]
    /\ UNCHANGED <<capacity_, lru_stats_, lru_list_, lru_key_map_, mutex, policy,
                   clock, glog, aborted, dcheck_failed, frames, used, lin, hist>>

InitReaders ==
    /\ \E capacity \in CapArgs : Construct(capacity, ThreadsPolicy)
    /\ last = NoCall
    /\ frames = [t \in Threads |-> IdleFrame(t)]
    /\ used = <<>>
    /\ lin = [w |-> World, call |-> [t \in Threads |-> NoReference],
              contended |-> FALSE]
    /\ script = [phase |-> "none", idx |-> 0]
    /\ hist = 0

NextReaders ==
    \/ \E t \in Threads : ThreadCall(t)
    \/ \E t \in Threads : ReaderStep(t)
    \/ ReadValue

SpecReaders == InitReaders /\ [][NextReaders]_vars

\* The pointer ptr designates the entry stored for key: the node at that
\* address is in the list, holds key, and is the one the index gives.
Designates(ptr, key) ==
    /\ IndexOf(lru_list_, ptr) # 0
    /\ lru_list_[IndexOf(lru_list_, ptr)].key = key
    /\ key \in DOMAIN lru_key_map_
    /\ lru_key_map_[key] = ptr

\* C22: from the return of a Find that found its key until a thread takes
\* the mutex for the next Insert, Find, Erase or Clear, the pointer it
\* returned designates the entry stored for that key, and a value read
\* through it then is that entry's value, read without undefined
\* behaviour.  (That afterwards, with the mutex free again, the pointer
\* can designate a node no longer in the list is the witness.)
C22_FindPointer ==
    /\ [](script.phase = "fresh" => Designates(last.ret, last.key))
    /\ [][script.phase = "fresh" /\ script'.phase = "read"
            => /\ ub' = ub
               /\ last'.found = EntryOf(lru_list_, last.key).value]_vars

\* C22 witness: a Find returned a pointer, the mutex was released, and
\* before the caller read the value another call evicted the entry: the
\* pointer designates a node that has left the list.
C22_Witness ==
    /\ script.phase = "freed"
    /\ last.op = "Find" /\ last.ret # NullPtr
    /\ mutex = 0 /\ \A t \in Threads : InNoCall(t)
    /\ lru_stats_.num_overflow = 1
    /\ ~Designates(last.ret, last.key)
    /\ ~ub

(***************************************************************************)
(* Eviction.                                                               *)
(***************************************************************************)
\* C23: a call evicts if and only if it is an Insert of a key that is not
\* present while Size() = capacity.  It then leaves the list as it was
\* without its back entry, behind the new entry, takes that entry's key
\* and no other out of the index, and adds one to num_overflow.  Any other
\* call leaves num_overflow as it was, and unless it is an Erase or a
\* Clear it leaves every key in the list and in the index.
C23_EvictionCondition ==
    [][~aborted =>
         IF /\ last'.op = "Insert"
            /\ ~ExistsNow(last'.key)
            /\ SizeNow = CapacityNow
         THEN LET back == lru_list_[Len(lru_list_)]
              IN  /\ Head(lru_list_').key = last'.key
                  /\ Tail(lru_list_') = SubSeq(lru_list_, 1, Len(lru_list_) - 1)
                  /\ DOMAIN lru_key_map_' =
                         (DOMAIN lru_key_map_ \ {back.key}) \cup {last'.key}
                  /\ lru_stats_'.num_overflow = lru_stats_.num_overflow + 1
         ELSE /\ lru_stats_'.num_overflow = lru_stats_.num_overflow
              /\ last'.op \notin {"Erase", "Clear"} =>
                     /\ Held(lru_list_) \subseteq Held(lru_list_')
                     /\ DOMAIN lru_key_map_ \subseteq DOMAIN lru_key_map_']_vars

\* C23 witness: an engine of capacity 2 has evicted once, by the Insert of
\* a third key, and then served a Find, which evicted nothing.
C23_Witness ==
    /\ capacity_ = 2
    /\ lru_stats_.num_insert = 3
    /\ lru_stats_.num_overflow = 1
    /\ lru_stats_.num_find = 1
    /\ last.op = "Find"
    /\ SizeNow = 2

\* C24: when an Insert has returned, on an engine of any capacity the
\* constructor accepts (1 included), the key it was passed is present: its
\* entry is at the front of the list, with the value passed, and the index
\* gives that node.  So the entry an overflowing Insert evicted is not the
\* one it had just placed.
C24_InsertedKeyPresent ==
    (~aborted /\ last.op = "Insert") =>
        /\ ExistsNow(last.key)
        /\ lru_list_ # <<>>
        /\ Head(lru_list_).key = last.key
        /\ Head(lru_list_).value = last.value
        /\ last.key \in DOMAIN lru_key_map_
        /\ lru_key_map_[last.key] = Head(lru_list_).addr

\* C24 witness: an engine of capacity 1 has returned from an Insert that
\* evicted, and holds the key of that Insert.
C24_Witness ==
    /\ capacity_ = 1
    /\ last.op = "Insert"
    /\ ~last.hit
    /\ lru_stats_.num_overflow = 2
    /\ lru_stats_.num_insert = 3
    /\ ExistsNow(last.key)

(***************************************************************************)
(* Two engines of the same capacity, both with TimestampAll, are given the *)
(* same calls.  MicrosecondsSinceEpoch reads the system clock, which can   *)
(* be set back: each engine gets any reading at each call, the two engines *)
(* different ones or the same.  lin is the second engine and its record    *)
(* of the call.                                                            *)
(***************************************************************************)
\* The largest reading of the system clock.
MaxReading == 1

\* The readings of the system clock.
ClockReadings == 0..MaxReading

\* Both engines serve op(key, value).
Twin(op, key, value) ==
    /\ ~aborted
    /\ \E now \in ClockReadings, other \in ClockReadings :
         \E r \in {Run(World, Call(1, op, key, value), now)},
            s \in {Run(lin.w, Call(1, op, key, value), other)} :
             /\ Commit(r.w)
             /\ last' = Completed(r.w, r.fr)
             /\ used' = Use(used, r.fr)
             /\ lin' = [w |-> s.w, call |-> Completed(s.w, s.fr)]
    /\ UNCHANGED <<capacity_, policy, clock, frames, script, hist>>

\* The bound on counted calls to the two engines.
MayTwin ==
    lru_stats_.num_insert + lru_stats_.num_find
      + lru_stats_.num_erase + lru_stats_.num_clear < MaxCalls

TwinInsert == MayTwin /\ \E key \in Keys, value \in Values : Twin("Insert", key, value)

TwinFind == MayTwin /\ \E key \in Keys : Twin("Find", key, NoValue)

TwinExists == \E key \in Keys : Twin("Exists", key, NoValue)

TwinErase == MayTwin /\ \E key \in Keys : Twin("Erase", key, NoValue)

TwinClear == MayTwin /\ Twin("Clear", 0, NoValue)

TwinSize == Twin("Size", 0, NoValue)

InitTwins ==
    /\ \E capacity \in CapArgs : Construct(capacity, TimedPolicy)
    /\ last = NoCall
    /\ frames = [t \in Threads |-> IdleFrame(t)]
    /\ used = <<>>
    /\ lin = [w |-> World, call |-> NoCall]
    /\ script = [phase |-> "twins", idx |-> 0]
    /\ hist = 0

NextTwins ==
    \/ TwinInsert
    \/ TwinFind
    \/ TwinExists
    \/ TwinErase
    \/ TwinClear
    \/ TwinSize

SpecTwins == InitTwins /\ [][NextTwins]_vars

\* The keys and values of a list, front to back.
Contents(list) == [i \in 1..Len(list) |-> <<list[i].key, list[i].value>>]

\* What a call gave its caller: the result, for Find whether it was a null
\* pointer and the value read through it.
Answer(call) ==
    [op |-> call.op, key |-> call.key,
     ret |-> IF call.op = "Find" THEN call.ret # NullPtr ELSE call.ret,
     found |-> call.found]

\* C25: two engines of the same capacity with TimestampAll, given the same
\* calls and any clock readings (equal, increasing or decreasing, and
\* different between the two), hold after every call the same keys with
\* the same values in the same order, for the same keys in their indexes,
\* have the same six counters, and have given the same answer to the call,
\* be it an Insert, a Find, an Exists, an Erase, a Clear or a Size.
C25_OrderIgnoresClock ==
    ~aborted =>
        /\ Contents(lru_list_) = Contents(lin.w.lru_list_)
        /\ DOMAIN lru_key_map_ = DOMAIN lin.w.lru_key_map_
        /\ lru_stats_ = lin.w.lru_stats_
        /\ Answer(last) = Answer(lin.call)

\* C25 witness: after an eviction the two engines hold two entries whose
\* timestamps differ between them: on the first the newer timestamps do
\* not increase from front to back, on the second one does.
C25_Witness ==
    /\ lru_stats_.num_overflow = 1
    /\ Len(lru_list_) = 2
    /\ ValidScan(lru_list_, 1, Int64Max)
    /\ ~ValidScan(lin.w.lru_list_, 1, Int64Max)
    /\ Contents(lru_list_) = Contents(lin.w.lru_list_)

(***************************************************************************)
(* Valid() on any list.  TimestampingPolicy::Valid is a static function of *)
(* a std::list: the engine is put on every list of up to MaxLen entries    *)
(* with any timestamps, in any order, and asked.                           *)
(***************************************************************************)
\* The longest list Valid() is asked about.
MaxLen == 3

\* The lists of n entries, keys 0..n-1 front to back, with any timestamps.
Stamped(n) ==
    {[i \in 1..n |->
        [KeyValueEntry(i, i - 1, 5) EXCEPT !.access_time_usecs = at[i],
                                           !.modify_time_usecs = mt[i]]] :
        at \in [1..n -> 0..MaxClock], mt \in [1..n -> 0..MaxClock]}

InitValid ==
    /\ capacity_ = MaxLen
    /\ policy \in {DefaultPolicy, TimedPolicy}
    /\ lru_stats_ = ZeroStats
    /\ \E n \in 0..MaxLen : lru_list_ \in Stamped(n)
    /\ lru_key_map_ = [k \in Held(lru_list_) |-> EntryOf(lru_list_, k).addr]
    /\ mutex = 0
    /\ aborted = FALSE
    /\ dcheck_failed = FALSE
    /\ ub = FALSE
    /\ glog = <<>>
    /\ clock = 0
    /\ last = NoCall
    /\ frames = [t \in Threads |-> IdleFrame(t)]
    /\ used = <<>>
    /\ lin = 0
    /\ script = [phase |-> "valid", idx |-> 0]
    /\ hist = 0

NextValid == Valid

SpecValid == InitValid /\ [][NextValid]_vars

\* C26: with TimestampAll, Valid() returns false exactly when some entry
\* of the list has a newer timestamp (the larger of its access and modify
\* times) strictly greater than that of the entry just before it, and true
\* otherwise, whatever the list: one in which a strictly newer entry sits
\* behind an older one is reported invalid, equal timestamps are accepted.
\* With TimestampNone, Valid() returns true for every list.
C26_ValidFunction ==
    LET disordered == \E i \in 2..Len(lru_list_) :
                          Recent(lru_list_[i]) > Recent(lru_list_[i - 1])
        expected == IF policy.timestamp = "TimestampAll" THEN ~disordered ELSE TRUE
    IN  /\ ValidNow = expected
        /\ last.op = "Valid" => last.ret = expected

\* C26 witness: with TimestampAll, Valid() has returned false for a list
\* whose first two entries have equal newer timestamps and whose third is
\* strictly newer than the second.
C26_Witness ==
    /\ policy.timestamp = "TimestampAll"
    /\ last.op = "Valid" /\ last.ret = FALSE
    /\ Len(lru_list_) = 3
    /\ Recent(lru_list_[1]) = Recent(lru_list_[2])
    /\ Recent(lru_list_[3]) > Recent(lru_list_[2])

(***************************************************************************)
(* Erase, Find and Insert of a key that is present; the counters.          *)
(***************************************************************************)
\* C27: an Erase(k) made when k is present leaves the list as it was
\* without k's entry (every other entry as it was, in the same order) and
\* the index as it was without k, so that Size() is one less and Exists(k)
\* false; it adds one to num_erase and leaves the other counters; and with
\* LogEventAll it adds one Erase event to the log, with the entry as it
\* was in the list (the hook reads it before the node is freed: nothing
\* undefined is done), with the other logging policies none.
C27_ErasePresent ==
    [][(~aborted /\ last'.op = "Erase" /\ last'.key \in DOMAIN lru_key_map_) =>
         LET k == last'.key
             i == IndexOf(lru_list_, lru_key_map_[k])
         IN  /\ i # 0 /\ lru_list_[i].key = k
             /\ lru_list_' = RemoveAt(lru_list_, i)
             /\ lru_key_map_' = Without(lru_key_map_, {k})
             /\ Len(lru_list_') = SizeNow - 1
             /\ lru_stats_' = [lru_stats_ EXCEPT !.num_erase = @ + 1]
             /\ glog' = IF policy.log = "LogEventAll"
                        THEN Append(glog, <<"Erase", EntryToString(lru_list_[i])>>)
                        ELSE glog
             /\ ~ub' /\ ~dcheck_failed' /\ ~aborted']_vars

\* C27 witness: with LogEventAll, an Erase removed the entry at the back of
\* a list of two and logged it; the other entry stayed.
C27_Witness ==
    /\ policy.log = "LogEventAll"
    /\ last.op = "Erase" /\ last.hit
    /\ Len(lru_list_) = 1
    /\ lru_stats_.num_insert = 2 /\ lru_stats_.num_erase = 1
    /\ glog # <<>>
    /\ glog[Len(glog)][1] = "Erase"
    /\ glog[Len(glog)][2][1] = last.key
    /\ glog[1][2][1] = last.key
    /\ ~ExistsNow(last.key)

(***************************************************************************)
(* A client that fills an engine of capacity MaxLen with distinct keys and *)
(* then makes MaxUses calls of Find, Insert or Exists: the lists are long  *)
(* enough for a call to leave several entries behind the one it moves.     *)
(* script.idx counts the calls made after the filling.                     *)
(***************************************************************************)
\* The calls made after the filling.
MaxUses == 2

\* One more Insert of the filling: a key that is not present.
OrderFill ==
    /\ script.idx = 0
    /\ Len(lru_list_) < MaxLen
    /\ \E key \in Keys \ DOMAIN lru_key_map_, value \in Values : Do("Insert", key, value)
    /\ UNCHANGED <<script, hist>>

\* A call after the filling.
Used(op, key, value) ==
    /\ script.idx < MaxUses
    /\ Do(op, key, value)
    /\ script' = [script EXCEPT !.idx = @ + 1]
    /\ UNCHANGED hist

OrderFind == \E key \in Keys : Used("Find", key, NoValue)

OrderInsert == \E key \in Keys, value \in Values : Used("Insert", key, value)

OrderExists == \E key \in Keys : Used("Exists", key, NoValue)

InitOrder ==
    /\ Construct(MaxLen, DefaultPolicy)
    /\ last = NoCall
    /\ frames = [t \in Threads |-> IdleFrame(t)]
    /\ used = <<>>
    /\ lin = 0
    /\ script = [phase |-> "order", idx |-> 0]
    /\ hist = 0

NextOrder ==
    \/ OrderFill
    \/ OrderFind
    \/ OrderInsert
    \/ OrderExists

SpecOrder == InitOrder /\ [][NextOrder]_vars

\* C28: a Find(k) that finds k, and an Insert(k, v) made when k is
\* present, leave behind k's node, now at the front, the list as it was
\* without that node: the other entries as they were, in the same order.
\* The index, and with it the set of keys and Size(), is as it was.  The
\* node moved holds v after the Insert and the value it held after a Find.
C28_MoveToFront ==
    [][(/\ ~aborted
        /\ last'.key \in DOMAIN lru_key_map_
        /\ \/ last'.op = "Find"
           \/ last'.op = "Insert") =>
         LET k == last'.key
             i == IndexOf(lru_list_, lru_key_map_[k])
         IN  /\ i # 0 /\ lru_list_[i].key = k
             /\ lru_list_' # <<>>
             /\ Head(lru_list_') =
                    [lru_list_[i] EXCEPT !.value =
                        IF last'.op = "Insert" THEN last'.value ELSE @]
             /\ Tail(lru_list_') = RemoveAt(lru_list_, i)
             /\ lru_key_map_' = lru_key_map_
             /\ Len(lru_list_') = SizeNow
             /\ last'.op = "Find" => last'.ret = lru_key_map_[k]]_vars

\* C28 witness: in a list of three, a Find moved to the front the node
\* allocated first, after an Insert had overwritten a value.
C28_Witness ==
    /\ Len(lru_list_) = 3
    /\ script.idx = 2
    /\ lru_stats_.num_insert = 4
    /\ last.op = "Find" /\ last.ret # NullPtr
    /\ Head(lru_list_).addr = 1
    /\ lru_list_[3].addr = 3

\* C29: between calls, what lru_map_stats() and Size() return satisfies
\* num_find_ok <= num_find and Size() + num_overflow <= num_insert; and no
\* call makes any of the six counters smaller.
C29_StatsConsistent ==
    /\ [](~aborted =>
             \E stats \in {StatsNow} :
                 /\ stats.num_find_ok <= stats.num_find
                 /\ SizeNow + stats.num_overflow <= stats.num_insert)
    /\ [][\A f \in DOMAIN ZeroStats : lru_stats_'[f] >= lru_stats_[f]]_vars

\* C29 witness: after an eviction, a Find that missed and a Clear, both
\* inequalities are strict.
C29_Witness ==
    /\ lru_stats_.num_overflow = 1
    /\ lru_stats_.num_clear = 1
    /\ lru_stats_.num_find = 1 /\ lru_stats_.num_find_ok = 0
    /\ last.op = "Clear"
    /\ SizeNow + lru_stats_.num_overflow < lru_stats_.num_insert

(***************************************************************************)
(* The assertions.                                                         *)
(***************************************************************************)
\* C30: on an engine the constructor accepted (capacity >= 1) shared by
\* threads under LockExclusiveStd, no CHECK or DCHECK fails and no
\* container is used outside its precondition, in any reachable state.  A
\* thread about to insert a new key into the index finds the key absent
\* from it; a thread that has placed or moved its entry finds its key at
\* the front of the list; and a thread about to read the size finds as
\* many entries in the list as keys in the index.
C30_AssertionsHold ==
    capacity_ >= 1 =>
        /\ NoError
        /\ \A t \in Threads :
              LET fr == frames[t]
              IN  /\ fr.pc = "Insert_new" => fr.key \notin DOMAIN lru_key_map_
                  /\ fr.pc \in {"Insert_hooks", "Find_hit"} =>
                         lru_list_ # <<>> /\ Head(lru_list_).key = fr.key
                  /\ fr.pc \in {"Insert_size", "Size_return"} =>
                         Len(lru_list_) = Cardinality(DOMAIN lru_key_map_)

\* C30 witness: a thread in an overflowing Insert is about to read the
\* size, while the other waits for the mutex to make a mutating call.
C30_Witness ==
    /\ capacity_ >= 1
    /\ NoError
    /\ \E t \in Threads, u \in Threads :
          /\ t # u
          /\ frames[t].pc = "Insert_size"
          /\ Len(lru_list_) = capacity_ + 1
          /\ Cardinality(DOMAIN lru_key_map_) = capacity_ + 1
          /\ frames[u].pc = "lock"
          /\ frames[u].op \in Mutating

=============================================================================
